---- MODULE Spec2Model ----
(***************************************************************************)
(* Model of the notebook                                                   *)
(*   Notebooks/Discovery_of_Brown_Dwarfs_mining_the_2MASS_and_SDSS_        *)
(*   databases.ipynb                                                       *)
(* run once from top to bottom by a Jupyter kernel: one action per code    *)
(* cell, and two actions (request issued / response received) for every    *)
(* cell that blocks on a remote service.                                   *)
(*                                                                         *)
(* Magnitudes are integers in units of 0.1 mag (22.0 mag = 220).  A table  *)
(* value is a numpy masked value: a mask bit and the data stored under it. *)
(***************************************************************************)
EXTENDS Integers, Sequences, FiniteSets, TLC

VARIABLES
    sky,        \* content of the remote catalogues (2MASS-PSC and SDSS DR9)
    lit,        \* well-formedness of the two SkyCoord literals
    pc,         \* the cell being run (or about to be run)
    phase,      \* "idle" | "inflight" | "error" | "done"
    error,      \* the exception that ended the run, "none" if none
    traceback,  \* what the kernel displayed for the exception
    executed,   \* cells that ran to completion, in order
    netlog,     \* remote requests issued, in order (cell that issued them)
    inflight,   \* requests issued and not yet answered
    failed,     \* cells whose remote request failed or timed out
    heap,       \* table objects: name -> [bound, rows]
    sdss_mass,  \* the table object the variable sdss_mass is bound to
    sdss_results, \* the TableList returned by custom_vizier.query_region
    files,      \* exported files: name -> [exists, rows]
    openFiles,  \* file handles currently open: [file, by]
    clients,    \* live service client objects: [name, by]
    candidate_simbad, \* result of the last Simbad cone lookup
    derived     \* number of times the derived columns were assigned

vars == <<sky, lit, pc, phase, error, traceback, executed, netlog, inflight,
          failed, heap, sdss_mass, sdss_results, files, openFiles, clients,
          candidate_simbad, derived>>

----------------------------------------------------------------------------
(* Bounds and program constants *)

MaxRows == 2

U_MIN == 220

G_MIN == 222

COLOUR_MAX == 3

FillData == 0

----------------------------------------------------------------------------
(* Masked values and their arithmetic (numpy.ma as used by astropy columns) *)

Val(d) == [mask |-> FALSE, data |-> d]

Null == [mask |-> TRUE, data |-> FillData]

\* a - b on masked columns: the mask is the union of the masks, and where
\* the result is masked the stored data is the left operand's data
Sub(a, b) == [mask |-> a.mask \/ b.mask,
              data |-> IF a.mask \/ b.mask THEN a.data ELSE a.data - b.data]

\* column > constant: the data are compared, the mask is carried along
Gt(a, c) == [mask |-> a.mask, data |-> a.data > c]

\* column < constant
Lt(a, c) == [mask |-> a.mask, data |-> a.data < c]

\* x & y on masked boolean arrays
And(x, y) == [mask |-> x.mask \/ y.mask, data |-> x.data /\ y.data]

----------------------------------------------------------------------------
(* Tables *)

Unbound == [bound |-> FALSE, rows |-> <<>>]

Tbl(rs) == [bound |-> TRUE, rows |-> rs]

NoFile == [exists |-> FALSE, rows |-> <<>>]

Indices(n) == [i \in 1..n |-> i]

\* table[boolean array]: the rows whose index entry holds True in its data,
\* in table order; numpy reads the data of a masked index, not its mask
RECURSIVE TakeFrom(_, _, _)
TakeFrom(rows, idx, i) ==
    IF i > Len(rows) THEN <<>>
    ELSE IF idx[i].data THEN <<rows[i]>> \o TakeFrom(rows, idx, i + 1)
    ELSE TakeFrom(rows, idx, i + 1)

\* the selected rows gathered back to front
RECURSIVE TakeBackwards(_, _, _)
TakeBackwards(rows, idx, i) ==
    IF i > Len(rows) THEN <<>>
    ELSE IF idx[i].data THEN TakeBackwards(rows, idx, i + 1) \o <<rows[i]>>
    ELSE TakeBackwards(rows, idx, i + 1)

TakeReversed(rows, idx) == TakeBackwards(rows, idx, 1)

Take(rows, idx) == TakeFrom(rows, idx, 1)

\* table[names]: a new table holding the named columns only
Project(rows, names) ==
    [i \in DOMAIN rows |-> [c \in names |-> rows[i][c]]]

ProjectedCols == {"RAJ2000", "Jmag", "Hmag", "Kmag", "umag", "gmag"}

\* H-K obtained by subtracting Kmag from the Hmag column in place
AddColoursInPlace(rows) ==
    [i \in DOMAIN rows |->
        [c \in DOMAIN rows[i] \cup {"J-H", "H-K"} |->
            IF c = "J-H" THEN Sub(rows[i]["Jmag"], rows[i]["Hmag"])
            ELSE IF c \in {"H-K", "Hmag"} THEN Sub(rows[i]["Hmag"], rows[i]["Kmag"])
            ELSE rows[i][c]]]

\* sdss_mass['J-H'] = ... ; sdss_mass['H-K'] = ...
AddColours(rows) ==
    [i \in DOMAIN rows |->
        [c \in DOMAIN rows[i] \cup {"J-H", "H-K"} |->
            IF c = "J-H" THEN Sub(rows[i]["Jmag"], rows[i]["Hmag"])
            ELSE IF c = "H-K" THEN Sub(rows[i]["Hmag"], rows[i]["Kmag"])
            ELSE rows[i][c]]]

\* index_bd = (umag > 22.0) & (gmag > 22.2) & (J-H < 0.3) & (H-K < 0.3)
IndexBd(rows) ==
    [i \in DOMAIN rows |->
        And(And(And(Gt(rows[i]["umag"], U_MIN), Gt(rows[i]["gmag"], G_MIN)),
                Lt(rows[i]["J-H"], COLOUR_MAX)),
            Lt(rows[i]["H-K"], COLOUR_MAX))]

\* the whole filtering cell as a function of the joined table
Filter(rows) == Take(AddColours(rows), IndexBd(AddColours(rows)))

----------------------------------------------------------------------------
(* The remote catalogues *)

MagCols == {"Jmag", "Hmag", "Kmag", "umag", "gmag"}

BaseSrc == [in2mass |-> TRUE, insdss |-> TRUE,
            Jmag |-> Val(150), Hmag |-> Val(148), Kmag |-> Val(146),
            umag |-> Val(221), gmag |-> Val(223)]

Alt(c) == CASE c = "umag" -> {Val(220), Null}
            [] c = "gmag" -> {Val(222), Null}
            [] c = "Jmag" -> {Null}
            [] c = "Hmag" -> {Val(147), Null}
            [] c = "Kmag" -> {Val(145), Null}

\* a source seen by both surveys, by 2MASS only or by SDSS only
Sources ==
    {BaseSrc}
    \cup UNION {{[BaseSrc EXCEPT ![c] = v] : v \in Alt(c)} : c \in MagCols}
    \cup {[BaseSrc EXCEPT !.insdss = FALSE], [BaseSrc EXCEPT !.in2mass = FALSE]}

Skies == UNION {[1..n -> Sources] : n \in 0..MaxRows}

\* cone search on II/246/out
Cone2Mass(s) ==
    LET hit == SelectSeq(Indices(Len(s)), LAMBDA i : s[i].in2mass)
    IN  [k \in DOMAIN hit |->
            [RAJ2000 |-> hit[k], Jmag |-> s[hit[k]].Jmag,
             Hmag |-> s[hit[k]].Hmag, Kmag |-> s[hit[k]].Kmag]]

\* cone search on V/139: a TableList, empty when no row is found
ConeSdss(s) ==
    LET hit == SelectSeq(Indices(Len(s)), LAMBDA i : s[i].insdss)
    IN  IF hit = <<>> THEN <<>>
        ELSE << [k \in DOMAIN hit |->
                    [RA_ICRS |-> hit[k], umag |-> s[hit[k]].umag,
                     gmag |-> s[hit[k]].gmag]] >>

----------------------------------------------------------------------------
(* Export to VOTable and the CSV answer of the cross-match service *)

NumCols == {"RAJ2000", "RA_ICRS", "angDist"}

\* Table.write(format='votable'): a masked entry is written as an empty
\* field, the data under the mask are not written
WriteField(c, v) == IF c \in NumCols THEN [empty |-> FALSE, text |-> v]
                    ELSE IF v.mask THEN [empty |-> TRUE, text |-> 0]
                    ELSE [empty |-> FALSE, text |-> v.data]

WriteVot(rows) ==
    [i \in DOMAIN rows |-> [c \in DOMAIN rows[i] |-> WriteField(c, rows[i][c])]]

\* reading the uploaded file / the CSV answer: an empty field becomes a
\* masked entry whose data is the reader's fill value
ReadField(c, f) == IF c \in NumCols THEN f.text
                   ELSE IF f.empty THEN Null ELSE Val(f.text)

ReadRows(frows) ==
    [i \in DOMAIN frows |-> [c \in DOMAIN frows[i] |-> ReadField(c, frows[i][c])]]

\* CDS XMatch of the uploaded file against vizier:V/139/sdss9: one CSV line
\* per uploaded row that has an SDSS counterpart, in upload order
XMatchJoin(up, s) ==
    LET hit == SelectSeq(Indices(Len(up)),
                         LAMBDA k : s[up[k]["RAJ2000"].text].insdss)
    IN  [k \in DOMAIN hit |->
            [RAJ2000 |-> up[hit[k]]["RAJ2000"],
             Jmag |-> up[hit[k]]["Jmag"], Hmag |-> up[hit[k]]["Hmag"],
             Kmag |-> up[hit[k]]["Kmag"],
             umag |-> WriteField("umag", s[up[hit[k]]["RAJ2000"].text].umag),
             gmag |-> WriteField("gmag", s[up[hit[k]]["RAJ2000"].text].gmag),
             angDist |-> [empty |-> FALSE, text |-> 0]]]

----------------------------------------------------------------------------
(* The kernel: cells run in notebook order, an exception ends the run *)

Cells == << "imports", "discover", "preview", "cone2mass", "find_catalogs",
            "get_catalogs", "conesdss", "show_sdss", "export", "xmatch",
            "project", "filter", "show_candidates", "aladin", "add_table",
            "verify0", "verify1", "biblio" >>

Order(c) == CHOOSE i \in DOMAIN Cells : Cells[i] = c

Objects == {"mass_psc", "sdss9", "xmatch_out", "projected", "candidates"}

\* the cell c ran to its end: the kernel goes on to the next cell
Finish(c) ==
    /\ executed' = Append(executed, c)
    /\ IF Order(c) = Len(Cells)
       THEN pc' = c /\ phase' = "done"
       ELSE pc' = Cells[Order(c) + 1] /\ phase' = "idle"
    /\ UNCHANGED <<error, traceback, failed>>

\* an uncaught exception: the traceback is displayed and the run stops
Raise(e) ==
    /\ phase' = "error"
    /\ error' = e
    /\ traceback' = e
    /\ failed' = IF e = "NetworkError" THEN failed \cup {pc} ELSE failed
    /\ UNCHANGED <<pc, executed>>

\* a blocking request to a remote service is sent
Send(c) ==
    /\ netlog' = Append(netlog, c)
    /\ inflight' = inflight \cup {c}
    /\ phase' = "inflight"
    /\ UNCHANGED <<pc, executed, error, traceback, failed>>

Running(c) == pc = c /\ phase = "idle"

Waiting(c) == pc = c /\ phase = "inflight"

Init ==
    /\ sky \in Skies
    /\ lit \in [c1 : BOOLEAN, c2 : BOOLEAN]
    /\ pc = "imports"
    /\ phase = "idle"
    /\ error = "none"
    /\ traceback = "none"
    /\ executed = <<>>
    /\ netlog = <<>>
    /\ inflight = {}
    /\ failed = {}
    /\ heap = [o \in Objects |-> Unbound]
    /\ sdss_mass = "none"
    /\ sdss_results = <<>>
    /\ files = [f \in {"Data/2MASS_PSC.vot", "Data/SDSS_DR9.vot"} |-> NoFile]
    /\ openFiles = {}
    /\ clients = {}
    /\ candidate_simbad = "unset"
    /\ derived = 0

\* imports; warnings.filterwarnings('ignore')
Imports ==
    /\ Running("imports")
    /\ Finish("imports")
    /\ UNCHANGED <<sky, lit, netlog, inflight, heap, sdss_mass, sdss_results,
                   files, openFiles, clients, candidate_simbad, derived>>

\* tap_vizier = TAPService(...); tap_vizier.search(query)
DiscoverBegin ==
    /\ Running("discover")
    /\ clients' = clients \cup {[name |-> "tap_vizier", by |-> "discover"]}
    /\ Send("discover")
    /\ UNCHANGED <<sky, lit, heap, sdss_mass, sdss_results, files, openFiles,
                   candidate_simbad, derived>>

DiscoverEnd ==
    /\ Waiting("discover")
    /\ inflight' = inflight \ {"discover"}
    /\ \/ Finish("discover")
       \/ Raise("NetworkError")
    /\ UNCHANGED <<sky, lit, netlog, heap, sdss_mass, sdss_results, files,
                   openFiles, clients, candidate_simbad, derived>>

\* SELECT TOP 5 * FROM "II/246/out"
PreviewBegin ==
    /\ Running("preview")
    /\ Send("preview")
    /\ UNCHANGED <<sky, lit, heap, sdss_mass, sdss_results, files, openFiles,
                   clients, candidate_simbad, derived>>

PreviewEnd ==
    /\ Waiting("preview")
    /\ inflight' = inflight \ {"preview"}
    /\ \/ Finish("preview")
       \/ Raise("NetworkError")
    /\ UNCHANGED <<sky, lit, netlog, heap, sdss_mass, sdss_results, files,
                   openFiles, clients, candidate_simbad, derived>>

\* coord = SkyCoord(...); mass_psc = tap_vizier.search(cone query).to_table()
Cone2MassBegin ==
    /\ Running("cone2mass")
    /\ IF lit.c1
       THEN Send("cone2mass")
       ELSE Raise("ValueError") /\ UNCHANGED <<netlog, inflight>>
    /\ UNCHANGED <<sky, lit, heap, sdss_mass, sdss_results, files, openFiles,
                   clients, candidate_simbad, derived>>

Cone2MassEnd ==
    /\ Waiting("cone2mass")
    /\ inflight' = inflight \ {"cone2mass"}
    /\ \/ /\ heap' = [heap EXCEPT !["mass_psc"] = Tbl(Cone2Mass(sky))]
          /\ Finish("cone2mass")
       \/ /\ Raise("NetworkError")
          /\ UNCHANGED heap
    /\ UNCHANGED <<sky, lit, netlog, sdss_mass, sdss_results, files,
                   openFiles, clients, candidate_simbad, derived>>

\* Vizier.find_catalogs('SDSS DR9')
FindCatalogsBegin ==
    /\ Running("find_catalogs")
    /\ Send("find_catalogs")
    /\ UNCHANGED <<sky, lit, heap, sdss_mass, sdss_results, files, openFiles,
                   clients, candidate_simbad, derived>>

FindCatalogsEnd ==
    /\ Waiting("find_catalogs")
    /\ inflight' = inflight \ {"find_catalogs"}
    /\ \/ Finish("find_catalogs")
       \/ Raise("NetworkError")
    /\ UNCHANGED <<sky, lit, netlog, heap, sdss_mass, sdss_results, files,
                   openFiles, clients, candidate_simbad, derived>>

\* test_sdss = Vizier.get_catalogs('V/139')
GetCatalogsBegin ==
    /\ Running("get_catalogs")
    /\ Send("get_catalogs")
    /\ UNCHANGED <<sky, lit, heap, sdss_mass, sdss_results, files, openFiles,
                   clients, candidate_simbad, derived>>

GetCatalogsEnd ==
    /\ Waiting("get_catalogs")
    /\ inflight' = inflight \ {"get_catalogs"}
    /\ \/ Finish("get_catalogs")
       \/ Raise("NetworkError")
    /\ UNCHANGED <<sky, lit, netlog, heap, sdss_mass, sdss_results, files,
                   openFiles, clients, candidate_simbad, derived>>

\* the region query is sent before the literal is parsed
ConeSdssBeginLate ==
    /\ Running("conesdss")
    /\ clients' = clients \cup {[name |-> "custom_vizier", by |-> "conesdss"]}
    /\ netlog' = Append(netlog, "conesdss")
    /\ IF lit.c2
       THEN /\ inflight' = inflight \cup {"conesdss"}
            /\ phase' = "inflight"
            /\ UNCHANGED <<pc, executed, error, traceback, failed>>
       ELSE Raise("ValueError") /\ UNCHANGED inflight
    /\ UNCHANGED <<sky, lit, heap, sdss_mass, sdss_results, files, openFiles,
                   candidate_simbad, derived>>

\* custom_vizier = Vizier(...); coord = SkyCoord(...);
\* sdss_results = custom_vizier.query_region(coord, ...)
ConeSdssBegin ==
    /\ Running("conesdss")
    /\ clients' = clients \cup {[name |-> "custom_vizier", by |-> "conesdss"]}
    /\ IF lit.c2
       THEN Send("conesdss")
       ELSE Raise("ValueError") /\ UNCHANGED <<netlog, inflight>>
    /\ UNCHANGED <<sky, lit, heap, sdss_mass, sdss_results, files, openFiles,
                   candidate_simbad, derived>>

ConeSdssEnd ==
    /\ Waiting("conesdss")
    /\ inflight' = inflight \ {"conesdss"}
    /\ \/ /\ IF ConeSdss(sky) = <<>>
             THEN sdss_results' = <<>> /\ UNCHANGED heap
             ELSE /\ sdss_results' = <<"sdss9">>
                  /\ heap' = [heap EXCEPT !["sdss9"] = Tbl(ConeSdss(sky)[1])]
          /\ Finish("conesdss")
       \/ /\ Raise("NetworkError")
          /\ UNCHANGED <<heap, sdss_results>>
    /\ UNCHANGED <<sky, lit, netlog, sdss_mass, files, openFiles, clients,
                   candidate_simbad, derived>>

\* sdss_results[0]
ShowSdss ==
    /\ Running("show_sdss")
    /\ IF Len(sdss_results) >= 1 THEN Finish("show_sdss")
       ELSE Raise("IndexError")
    /\ UNCHANGED <<sky, lit, netlog, inflight, heap, sdss_mass, sdss_results,
                   files, openFiles, clients, candidate_simbad, derived>>

\* mass_psc.write('Data/2MASS_PSC.vot', ...);
\* sdss_results[0].write('Data/SDSS_DR9.vot', ...)
\* each write opens its file and closes it before it returns
Export ==
    /\ Running("export")
    /\ IF Len(sdss_results) >= 1
       THEN /\ files' = [files EXCEPT
                  !["Data/2MASS_PSC.vot"] =
                      [exists |-> TRUE, rows |-> WriteVot(heap["mass_psc"].rows)],
                  !["Data/SDSS_DR9.vot"] =
                      [exists |-> TRUE,
                       rows |-> WriteVot(heap[sdss_results[1]].rows)]]
            /\ Finish("export")
       ELSE /\ files' = [files EXCEPT
                  !["Data/2MASS_PSC.vot"] =
                      [exists |-> TRUE, rows |-> WriteVot(heap["mass_psc"].rows)]]
            /\ Raise("IndexError")
    /\ UNCHANGED <<sky, lit, netlog, inflight, heap, sdss_mass, sdss_results,
                   openFiles, clients, candidate_simbad, derived>>

\* the cross-match is submitted and the cell does not wait for its answer
XMatchBeginAsync ==
    /\ Running("xmatch")
    /\ files["Data/2MASS_PSC.vot"].exists
    /\ netlog' = Append(netlog, "xmatch")
    /\ inflight' = inflight \cup {"xmatch"}
    /\ Finish("xmatch")
    /\ UNCHANGED <<sky, lit, heap, sdss_mass, sdss_results, files, openFiles,
                   clients, candidate_simbad, derived>>

\* sdss_mass = XMatch.query(cat1=open('Data/2MASS_PSC.vot'), ...)
XMatchBegin ==
    /\ Running("xmatch")
    /\ IF files["Data/2MASS_PSC.vot"].exists
       THEN /\ openFiles' = openFiles \cup
                    {[file |-> "Data/2MASS_PSC.vot", by |-> "xmatch"]}
            /\ Send("xmatch")
       ELSE /\ Raise("FileNotFoundError")
            /\ UNCHANGED <<openFiles, netlog, inflight>>
    /\ UNCHANGED <<sky, lit, heap, sdss_mass, sdss_results, files, clients,
                   candidate_simbad, derived>>

\* a failure of the cross-match is caught and the run goes on
XMatchEndSwallow ==
    /\ Waiting("xmatch")
    /\ inflight' = inflight \ {"xmatch"}
    /\ \/ /\ heap' = [heap EXCEPT !["xmatch_out"] =
                  Tbl(ReadRows(XMatchJoin(files["Data/2MASS_PSC.vot"].rows, sky)))]
          /\ sdss_mass' = "xmatch_out"
          /\ openFiles' = openFiles \ {[file |-> "Data/2MASS_PSC.vot", by |-> "xmatch"]}
          /\ Finish("xmatch")
       \/ /\ failed' = failed \cup {"xmatch"}
          /\ executed' = Append(executed, "xmatch")
          /\ pc' = "project"
          /\ phase' = "idle"
          /\ UNCHANGED <<error, traceback, heap, sdss_mass, openFiles>>
    /\ UNCHANGED <<sky, lit, netlog, sdss_results, files, clients,
                   candidate_simbad, derived>>

\* the uploaded file stays open after the call has returned
XMatchEndLeak ==
    /\ Waiting("xmatch")
    /\ inflight' = inflight \ {"xmatch"}
    /\ \/ /\ heap' = [heap EXCEPT !["xmatch_out"] =
                  Tbl(ReadRows(XMatchJoin(files["Data/2MASS_PSC.vot"].rows, sky)))]
          /\ sdss_mass' = "xmatch_out"
          /\ Finish("xmatch")
       \/ /\ Raise("NetworkError")
          /\ UNCHANGED <<heap, sdss_mass>>
    /\ UNCHANGED <<sky, lit, netlog, sdss_results, files, openFiles, clients,
                   candidate_simbad, derived>>

\* the answer arrives: the only reference to the file object was the call's
\* argument, so the handle is closed when the call returns; an exception
\* keeps the frame, and the handle, alive in the traceback
XMatchEnd ==
    /\ Waiting("xmatch")
    /\ inflight' = inflight \ {"xmatch"}
    /\ \/ /\ heap' = [heap EXCEPT !["xmatch_out"] =
                  Tbl(ReadRows(XMatchJoin(files["Data/2MASS_PSC.vot"].rows, sky)))]
          /\ sdss_mass' = "xmatch_out"
          /\ openFiles' = openFiles \ {[file |-> "Data/2MASS_PSC.vot", by |-> "xmatch"]}
          /\ Finish("xmatch")
       \/ /\ Raise("NetworkError")
          /\ UNCHANGED <<heap, sdss_mass, openFiles>>
    /\ UNCHANGED <<sky, lit, netlog, sdss_results, files, clients,
                   candidate_simbad, derived>>

\* the columns are dropped from the cross-match table itself
ProjectCellInPlace ==
    /\ Running("project")
    /\ heap' = [heap EXCEPT ![sdss_mass] =
                    Tbl(Project(heap[sdss_mass].rows, ProjectedCols))]
    /\ Finish("project")
    /\ UNCHANGED <<sky, lit, netlog, inflight, sdss_mass, sdss_results, files,
                   openFiles, clients, candidate_simbad, derived>>

\* sdss_mass = sdss_mass['2MASS', 'RAJ2000', ...]: a new table, the variable
\* is rebound to it
ProjectCell ==
    /\ Running("project")
    /\ heap' = [heap EXCEPT !["projected"] =
                    Tbl(Project(heap[sdss_mass].rows, ProjectedCols))]
    /\ sdss_mass' = "projected"
    /\ Finish("project")
    /\ UNCHANGED <<sky, lit, netlog, inflight, sdss_results, files, openFiles,
                   clients, candidate_simbad, derived>>

\* the filtering cell: the two colour columns are added to sdss_mass in
\* place, then candidates = sdss_mass[index_bd]
FilterCell ==
    /\ Running("filter")
    /\ heap' = [heap EXCEPT
            ![sdss_mass] = Tbl(AddColours(heap[sdss_mass].rows)),
            !["candidates"] = Tbl(Filter(heap[sdss_mass].rows))]
    /\ derived' = derived + 1
    /\ Finish("filter")
    /\ UNCHANGED <<sky, lit, netlog, inflight, sdss_mass, sdss_results, files,
                   openFiles, clients, candidate_simbad>>

\* candidates
ShowCandidates ==
    /\ Running("show_candidates")
    /\ Finish("show_candidates")
    /\ UNCHANGED <<sky, lit, netlog, inflight, heap, sdss_mass, sdss_results,
                   files, openFiles, clients, candidate_simbad, derived>>

\* x[k] with k counted from 0 on a column of the table rows
HasRow(rows, k) == Len(rows) >= k + 1

\* aladin1 = ipyal.Aladin(..., target=format(candidates['RAJ2000'][0], ...))
Aladin ==
    /\ Running("aladin")
    /\ IF HasRow(heap["candidates"].rows, 0) THEN Finish("aladin")
       ELSE Raise("IndexError")
    /\ UNCHANGED <<sky, lit, netlog, inflight, heap, sdss_mass, sdss_results,
                   files, openFiles, clients, candidate_simbad, derived>>

\* aladin1.add_table(candidates)
AddTable ==
    /\ Running("add_table")
    /\ Finish("add_table")
    /\ UNCHANGED <<sky, lit, netlog, inflight, heap, sdss_mass, sdss_results,
                   files, openFiles, clients, candidate_simbad, derived>>

\* customSimbad = Simbad(): the variable is rebound, the client it named
\* before is dropped
NewSimbad(c) ==
    {x \in clients : x.name # "customSimbad"}
        \cup {[name |-> "customSimbad", by |-> c]}

\* customSimbad = Simbad(); ...; SkyCoord(candidates[...][0]);
\* candidate_simbad = customSimbad.query_region(..., radius=10 arcsec)
Verify0Begin ==
    /\ Running("verify0")
    /\ clients' = NewSimbad("verify0")
    /\ IF HasRow(heap["candidates"].rows, 0)
       THEN Send("verify0")
       ELSE Raise("IndexError") /\ UNCHANGED <<netlog, inflight>>
    /\ UNCHANGED <<sky, lit, heap, sdss_mass, sdss_results, files, openFiles,
                   candidate_simbad, derived>>

Verify0End ==
    /\ Waiting("verify0")
    /\ inflight' = inflight \ {"verify0"}
    /\ \/ /\ candidate_simbad' \in {"empty", "found"}
          /\ Finish("verify0")
       \/ /\ Raise("NetworkError")
          /\ UNCHANGED candidate_simbad
    /\ UNCHANGED <<sky, lit, netlog, heap, sdss_mass, sdss_results, files,
                   openFiles, clients, derived>>

\* the same lookup for candidates[...][1], radius 1 arcmin
Verify1Begin ==
    /\ Running("verify1")
    /\ clients' = NewSimbad("verify1")
    /\ IF HasRow(heap["candidates"].rows, 1)
       THEN Send("verify1")
       ELSE Raise("IndexError") /\ UNCHANGED <<netlog, inflight>>
    /\ UNCHANGED <<sky, lit, heap, sdss_mass, sdss_results, files, openFiles,
                   candidate_simbad, derived>>

Verify1End ==
    /\ Waiting("verify1")
    /\ inflight' = inflight \ {"verify1"}
    /\ \/ /\ candidate_simbad' \in {"empty", "found"}
          /\ Finish("verify1")
       \/ /\ Raise("NetworkError")
          /\ UNCHANGED candidate_simbad
    /\ UNCHANGED <<sky, lit, netlog, heap, sdss_mass, sdss_results, files,
                   openFiles, clients, derived>>

\* tap_simbad = TAPService(...); result = tap_simbad.search(query).to_table()
BiblioBegin ==
    /\ Running("biblio")
    /\ clients' = clients \cup {[name |-> "tap_simbad", by |-> "biblio"]}
    /\ Send("biblio")
    /\ UNCHANGED <<sky, lit, heap, sdss_mass, sdss_results, files, openFiles,
                   candidate_simbad, derived>>

BiblioEnd ==
    /\ Waiting("biblio")
    /\ inflight' = inflight \ {"biblio"}
    /\ \/ Finish("biblio")
       \/ Raise("NetworkError")
    /\ UNCHANGED <<sky, lit, netlog, heap, sdss_mass, sdss_results, files,
                   openFiles, clients, candidate_simbad, derived>>

Next ==
    \/ Imports
    \/ DiscoverBegin \/ DiscoverEnd
    \/ PreviewBegin \/ PreviewEnd
    \/ Cone2MassBegin \/ Cone2MassEnd
    \/ FindCatalogsBegin \/ FindCatalogsEnd
    \/ GetCatalogsBegin \/ GetCatalogsEnd
    \/ ConeSdssBegin \/ ConeSdssEnd
    \/ ShowSdss
    \/ Export
    \/ XMatchBegin \/ XMatchEnd
    \/ ProjectCell
    \/ FilterCell
    \/ ShowCandidates
    \/ Aladin
    \/ AddTable
    \/ Verify0Begin \/ Verify0End
    \/ Verify1Begin \/ Verify1End
    \/ BiblioBegin \/ BiblioEnd

Spec == Init /\ [][Next]_vars

----------------------------------------------------------------------------
(* Properties of the candidate filter *)

Ran(c) == \E k \in DOMAIN executed : executed[k] = c

Joined == heap[sdss_mass].rows

Cand == heap["candidates"].rows

\* the four selection criteria of the notebook, read on the values of a row:
\* a missing value satisfies no criterion
Criteria(r) ==
    /\ \A c \in MagCols : ~r[c].mask
    /\ r["umag"].data > U_MIN
    /\ r["gmag"].data > G_MIN
    /\ r["Jmag"].data - r["Hmag"].data < COLOUR_MAX
    /\ r["Hmag"].data - r["Kmag"].data < COLOUR_MAX

\* C1: once the filtering cell has run, a row of the joined table is in
\* candidates exactly when it meets the four strict criteria, and a candidate
\* carries J-H = Jmag - Hmag and H-K = Hmag - Kmag of its own row.
C1_Membership ==
    Ran("filter") =>
        /\ \A i \in DOMAIN Joined :
              (\E k \in DOMAIN Cand : Cand[k] = Joined[i]) <=> Criteria(Joined[i])
        /\ \A k \in DOMAIN Cand :
              /\ Cand[k]["J-H"] = Val(Cand[k]["Jmag"].data - Cand[k]["Hmag"].data)
              /\ Cand[k]["H-K"] = Val(Cand[k]["Hmag"].data - Cand[k]["Kmag"].data)

\* C2: a row with a missing umag, gmag, Jmag, Hmag or Kmag is never a
\* candidate, and the filtering cell never raises.
C2_MissingExcluded ==
    /\ Ran("filter") =>
          \A k \in DOMAIN Cand : \A c \in MagCols : ~Cand[k][c].mask
    /\ ~(pc = "filter" /\ phase = "error")

ZeroRowStage ==
    \/ Ran("conesdss") /\ sdss_results = <<>>
    \/ \E o \in Objects : heap[o].bound /\ heap[o].rows = <<>>

\* C3: when a stage has produced a zero-row table, no cell of the run ends
\* in an error caused by it (the cells that read candidates[0] and
\* candidates[1] included).
C3_EmptyNeverCrashes ==
    ZeroRowStage => ~(phase = "error" /\ error = "IndexError")

\* c is t with some rows left out: a strictly increasing choice of positions
RECURSIVE IsSubSeqFrom(_, _, _, _)
IsSubSeqFrom(c, t, k, i) ==
    IF k > Len(c) THEN TRUE
    ELSE IF i > Len(t) THEN FALSE
    ELSE IF c[k] = t[i] THEN IsSubSeqFrom(c, t, k + 1, i + 1)
    ELSE IsSubSeqFrom(c, t, k, i + 1)

IsSubSeq(c, t) == IsSubSeqFrom(c, t, 1, 1)

\* C4: candidates is an order-preserving sub-sequence of the joined table:
\* every candidate is a row of the input, none occurs more often than in the
\* input, and surviving rows keep their relative order.
C4_SubSequence ==
    Ran("filter") => IsSubSeq(Cand, Joined)

\* two distinct rows survive, so their order is observable
C4_Witness ==
    Ran("filter") /\ Len(Cand) = 2 /\ Cand[1] # Cand[2]

\* C5: running the filtering cell again on its own output returns that
\* output: filter(filter(T)) = filter(T).
C5_Idempotent ==
    Ran("filter") => Filter(Cand) = Cand

\* a table that lost a row and kept one
C5_Witness ==
    Ran("filter") /\ Len(Cand) = 1 /\ Len(Joined) = 2

----------------------------------------------------------------------------
(* Properties of the run *)

Before(c, d) == Order(c) < Order(d)

BadLiteral == phase = "error" /\ error = "ValueError"

\* C6 (as stated): a malformed position literal stops the run before any
\* request to a remote service has been issued.
C6_NoRequestBeforeParse ==
    BadLiteral => netlog = <<>>

\* C6 (amended): a malformed position literal stops the run in the cell
\* that parses it, before that cell's own request: no request of that cell
\* or of a later cell is ever issued, only requests of earlier cells are.
C6_NoRequestFromParsingCell ==
    /\ ~lit.c1 => \A k \in DOMAIN netlog : Before(netlog[k], "cone2mass")
    /\ ~lit.c2 => \A k \in DOMAIN netlog : Before(netlog[k], "conesdss")
    /\ BadLiteral =>
          /\ pc \in {"cone2mass", "conesdss"}
          /\ \A k \in DOMAIN netlog : Before(netlog[k], pc)
          /\ ~Ran(pc)
          /\ inflight = {}

\* the second literal is malformed: five requests are already out
C6_Witness ==
    BadLiteral /\ pc = "conesdss" /\ Len(netlog) = 5

Count(seq, c) == Cardinality({k \in DOMAIN seq : seq[k] = c})

\* C7: a remote call that fails is attempted exactly once, its error is
\* displayed, and the run ends there: the failing cell and every later cell
\* never complete, and no further request is issued.
C7_FailureStops ==
    \A c \in failed :
        /\ phase = "error" /\ pc = c
        /\ error = "NetworkError" /\ traceback = "NetworkError"
        /\ Count(netlog, c) = 1
        /\ netlog[Len(netlog)] = c
        /\ inflight = {}
        /\ \A k \in DOMAIN executed : Before(executed[k], c)

C7_Witness ==
    failed = {"xmatch"} /\ phase = "error"

\* C8: the cells run in notebook order, one at a time: a stage starts only
\* when the output it consumes exists, and at most one request is in flight.
C8_LinearStages ==
    /\ Cardinality(inflight) <= 1
    /\ inflight = IF phase = "inflight" THEN {pc} ELSE {}
    /\ executed = SubSeq(Cells, 1, Len(executed))
    /\ pc = Cells[IF phase = "done" THEN Len(Cells) ELSE Len(executed) + 1]
    /\ ~Before(pc, "export") =>
          /\ Ran("cone2mass") /\ Ran("conesdss")
          /\ heap["mass_psc"].bound /\ sdss_results # <<>>
    /\ Count(netlog, "xmatch") > 0 =>
          /\ Ran("export")
          /\ files["Data/2MASS_PSC.vot"].exists
          /\ files["Data/SDSS_DR9.vot"].exists
    /\ (derived > 0 \/ heap["candidates"].bound) =>
          /\ Ran("xmatch") /\ heap["xmatch_out"].bound
          /\ Ran("project") /\ sdss_mass = "projected"
    /\ ~Before(pc, "aladin") =>
          Ran("filter") /\ heap["candidates"].bound

\* a verifier lookup is in flight
C8_Witness ==
    pc = "verify1" /\ phase = "inflight"

C10_OnlyDerivedColumns ==
    [][ /\ \A o \in Objects : heap[o].bound =>
              \/ heap'[o] = heap[o]
              \/ /\ pc = "filter" /\ o = sdss_mass
                 /\ derived = 0 /\ derived' = 1
                 /\ heap'[o] = Tbl(AddColours(heap[o].rows))
        /\ derived' # derived =>
              /\ pc = "filter" /\ ~heap["candidates"].bound
              /\ heap'["candidates"] =
                    Tbl(Take(heap'[sdss_mass].rows, IndexBd(heap'[sdss_mass].rows)))
        /\ heap'["candidates"] # heap["candidates"] => derived' # derived
      ]_vars

\* a complete run
C10_Witness ==
    phase = "done" /\ derived = 1 /\ Len(Cand) = 2

====
